---- MODULE Spec2Model ----
(***************************************************************************)
(* A model of the ComboBox cell editor of fin-hypergrid                    *)
(* (src/src/cellEditors/ComboBox.js).                                      *)
(*                                                                         *)
(* The editor object (`this`) together with the DOM state it owns is the   *)
(* record `ed`.  Every function of ComboBox.js is an operator from such a  *)
(* record to the record after the call, so that handlers compose as they   *)
(* do in the source (insertText -> toggleDropDown -> slideUp, ...).  One   *)
(* action of Next is one task of the UI event loop: a DOM event handler,   *)
(* a transitionend callback or a timer callback.                           *)
(*                                                                         *)
(* JavaScript values held in menuModes are encoded as strings:             *)
(*   "undefined" (also: key absent), "n0" "n1" "n2" "n3" (numbers),        *)
(*   "true" "false" (booleans), "sx" (a non-numeric string such as 'x').   *)
(*                                                                         *)
(* The text of the input and its selection, and the options that           *)
(* mode.appendOptions adds to the select list, are data the handlers pass  *)
(* through without branching on them; they are not part of the state.      *)
(***************************************************************************)
EXTENDS Naturals, Sequences, FiniteSets

VARIABLES
    modes,            \* ComboBox.prototype.modes, as overridden by the subclass in use
    menuModesSource,  \* this.menuModesSource, the persisted mode states
    ed,               \* the editor instance and its DOM
    lastEvent         \* the event-loop task that ran last

vars == <<modes, menuModesSource, ed, lastEvent>>

----------------------------------------------------------------------------
(* Bounds of the model *)

\* at most this many showEditor calls on one editor instance
MaxShows == 2

\* at most this many mousedown listeners orphaned on the input
MaxStale == 1

----------------------------------------------------------------------------
(* Program constants *)

\* <select size="12">
SelectSize == 12

----------------------------------------------------------------------------
(* Values *)

\* the names of the modes a subclass defines, in the order of `modes`
ModeNames == <<"a", "b">>

MaxModes == Len(ModeNames)

\* the name carried by a span of class 'toggle-mode-zz', which is no mode
UnknownName == "zz"

Names == {ModeNames[i] : i \in 1..MaxModes} \cup {UnknownName}

\* the option groups a mode can govern: its own (mode.selector) or the
\* ungrouped options (':scope>option,:scope>optgroup:not([class])')
Groups == {ModeNames[i] : i \in 1..MaxModes} \cup {"default"}

SourceValues == {"undefined", "n0", "n1", "true", "false", "sx", "n2"}

Values == SourceValues \cup {"n3"}

\* JavaScript ToBoolean
Truthy(v) == v \in {"n1", "true", "sx", "n2", "n3"}

\* JavaScript `v ^ 1`: ToInt32(v) xor 1, always a number
Xor1(v) ==
    CASE v = "undefined" -> "n1"
      [] v = "n0"        -> "n1"
      [] v = "n1"        -> "n0"
      [] v = "true"      -> "n0"
      [] v = "false"     -> "n1"
      [] v = "sx"        -> "n1"
      [] v = "n2"        -> "n3"
      [] v = "n3"        -> "n2"

\* this.options.style.height set by slideDown: 2 + 15 + size * 15 + 2 (px)
DropDownHeight == 2 + 15 + SelectSize * 15 + 2

\* the click targets inside the controls area: the area itself, a span
\* without a 'toggle-mode-' class, and the idx-th span of class
\* 'toggle-mode-' + name
ClickTargets ==
    [tag : {"DIV"}, cls : {"none"}, name : {"none"}, idx : {1}]
      \cup [tag : {"SPAN"}, cls : {"plain"}, name : {"none"}, idx : {1}]
      \cup [tag : {"SPAN"}, cls : {"toggle-mode"}, name : Names, idx : 1..MaxShows]

\* the mode lists a subclass can define: distinct names, each mode with or
\* without a selector of its own; a mode with a selector is a labelled mode,
\* its selector naming the optgroup that showEditor creates for the label
ModeLists ==
    UNION {[1..n -> [name : {ModeNames[i] : i \in 1..MaxModes}, selector : BOOLEAN]]
             : n \in 0..MaxModes}

WellFormedModes(ms) ==
    \A i \in 1..Len(ms) : ms[i].name = ModeNames[i]

ModeSet(ms) == {ms[i] : i \in 1..Len(ms)}

ModeNameSet(ms) == {ms[i].name : i \in 1..Len(ms)}

\* Array.prototype.find on this.modes: the first mode of that name
FindMode(ms, name) ==
    IF name \in ModeNameSet(ms)
    THEN ms[CHOOSE i \in 1..Len(ms) :
                /\ ms[i].name = name
                /\ \A j \in 1..(i - 1) : ms[j].name # name]
    ELSE [name |-> "none", selector |-> FALSE]

\* the group mode.selector || ':scope>option,:scope>optgroup:not([class])' selects
GroupOf(mode) == IF mode.selector THEN mode.name ELSE "default"

----------------------------------------------------------------------------
(* lib/queueless (onTransitionEnd): the transition flag of this.options *)

\* this.transit(): the getter, TRUE while a transition is in progress
transitGet(e) == e.transitionInProgress

\* this.transit(callback): raises the flag and schedules `callback`
\* ("null" for none) and the reset of the flag for the end of the transition
transitSet(e, callback) ==
    [e EXCEPT !.transitionInProgress = TRUE,
              !.pending = Append(@, callback)]

\* one scheduled end-of-transition continuation: the callback, then the reset
RunCallback(e, callback) ==
    [e EXCEPT !.visibility = IF callback = "hide" THEN "hidden" ELSE @,
              !.transitionInProgress = FALSE]

RECURSIVE RunPending(_, _)
RunPending(e, cbs) ==
    IF cbs = <<>> THEN e
    ELSE RunPending(RunCallback(e, Head(cbs)), Tail(cbs))

\* the transitionend event of this.options
transitionEnd(e) ==
    RunPending([e EXCEPT !.moving = FALSE, !.pending = <<>>], e.pending)

\* assigning this.options.style.height starts a CSS transition when the
\* value changes, or redirects the one that is running
SetHeight(e, h) ==
    [e EXCEPT !.height = h, !.moving = @ \/ (e.height # h)]

----------------------------------------------------------------------------
(* The drop-down *)

slideDown(e) ==
    LET shown == SetHeight([e EXCEPT !.visibility = "visible"], DropDownHeight)
        wired == [shown EXCEPT
                    !.staleListeners = IF e.inputListener THEN @ + 1 ELSE @,
                    !.inputListener = TRUE]
    IN  transitSet([wired EXCEPT !.log = Append(@, "slideDown")], "null")

\* slideUp hiding the panel at once instead of after the slide up effect
slideUp_HideNow(e) ==
    LET unwired == [e EXCEPT !.inputListener = FALSE, !.visibility = "hidden"]
        closing == SetHeight(unwired, 0)
    IN  transitSet([closing EXCEPT !.log = Append(@, "slideUp")], "null")

\* slideUp without the removeEventListener
slideUp_KeepListener(e) ==
    transitSet([SetHeight(e, 0) EXCEPT !.log = Append(@, "slideUp")], "hide")

\* slideUp without `this.options.style.height = 0`: no slide up effect
slideUp_NoEffect(e) ==
    LET unwired == [e EXCEPT !.inputListener = FALSE]
    IN  transitSet([unwired EXCEPT !.log = Append(@, "slideUp")], "hide")

slideUp(e) ==
    LET unwired == [e EXCEPT !.inputListener = FALSE]
        closing == SetHeight(unwired, 0)
    IN  transitSet([closing EXCEPT !.log = Append(@, "slideUp")], "hide")

\* stateToActionMap with both states mapped to slideDown
stateToActionMap_AlwaysDown(state) == "slideDown"

\* var stateToActionMap = { hidden: slideDown, visible: slideUp }
stateToActionMap(state) ==
    IF state = "hidden" THEN "slideDown" ELSE "slideUp"

Call(fn, e) ==
    IF fn = "slideDown" THEN slideDown(e) ELSE slideUp(e)

\* toggleDropDown without the test of the transition flag
toggleDropDown_NoLock(e) ==
    LET entered == [e EXCEPT !.log = Append(@, "toggleDropDown")]
    IN  IF entered.visibility = "hidden" THEN slideDown(entered) ELSE slideUp(entered)

toggleDropDown(e) ==
    LET entered == [e EXCEPT !.log = Append(@, "toggleDropDown")]
        transitionInProgress == transitGet(entered)
    IN  IF ~transitionInProgress
        THEN Call(stateToActionMap(entered.visibility), entered)
        ELSE entered

insertText(e) ==
    toggleDropDown([e EXCEPT !.log = Append(@, "insertText")])

\* the mousedown listeners of the input: this.slideUpBound, and every bound
\* slideUp that a later slideDown replaced without removing it
RECURSIVE SlideUpTimes(_, _)
SlideUpTimes(e, n) ==
    IF n = 0 THEN e ELSE SlideUpTimes(slideUp(e), n - 1)

InputListeners(e) == e.staleListeners + (IF e.inputListener THEN 1 ELSE 0)

inputMouseDown(e) == SlideUpTimes(e, InputListeners(e))

----------------------------------------------------------------------------
(* The mode toggles *)

setModeIconAndOptgroup(e, ms, ctrl, name, state) ==
    LET mode == FindMode(ms, name)
        found == name \in ModeNameSet(ms)
        icon == [e EXCEPT !.iconActive[ctrl.name][ctrl.idx] = Truthy(state)]
    IN  IF Truthy(state)
        THEN LET busy == [icon EXCEPT !.cursor = "progress"]
             IN  IF ~found
                 THEN [busy EXCEPT !.thrown = TRUE]   \* mode.selector of undefined
                 ELSE [busy EXCEPT !.display[GroupOf(mode)] = "null"]
        ELSE IF ~found
             THEN [icon EXCEPT !.thrown = TRUE]       \* mode.selector of undefined
             ELSE [icon EXCEPT !.display[GroupOf(mode)] = "none"]

onModeIconClick(e, ms, target) ==
    LET entered == [e EXCEPT !.log = Append(@, "onModeIconClick")]
    IN  IF target.tag = "SPAN"
        THEN IF target.cls # "toggle-mode"
             THEN [entered EXCEPT !.thrown = TRUE]    \* undefined.substr
             ELSE LET modeName == target.name
                      modeState == Xor1(entered.menuModes[modeName])
                      toggled == [entered EXCEPT !.menuModes[modeName] = modeState]
                      ctrl == [name |-> target.name, idx |-> target.idx]
                  IN  setModeIconAndOptgroup(toggled, ms, ctrl, modeName, modeState)
        ELSE entered

\* a click in the controls area runs every click listener showEditor added;
\* an exception thrown by one listener does not stop the next
RECURSIVE ClickTimes(_, _, _, _)
ClickTimes(e, ms, target, n) ==
    IF n = 0 THEN e
    ELSE LET r == onModeIconClick([e EXCEPT !.thrown = FALSE], ms, target)
         IN  ClickTimes([r EXCEPT !.thrown = @ \/ e.thrown], ms, target, n - 1)

controlsClick(e, ms, target) == ClickTimes(e, ms, target, e.controlsListeners)

----------------------------------------------------------------------------
(* The editor *)

\* Simple.prototype.showEditor / hideEditor
prototype_showEditor(e) == [e EXCEPT !.shown = TRUE]

prototype_hideEditor(e) == [e EXCEPT !.shown = FALSE]

\* the proxy built by showEditor: the states of the defined modes only
BuildMenuModes(ms, source) ==
    [n \in Names |-> IF n \in ModeNameSet(ms) THEN source[n] ELSE "undefined"]

\* the body of showEditor's second forEach, for the mode ms[i]: a new
\* toggle, a new optgroup for a labelled mode, then the initial state set on
\* the first toggle of the mode's class that querySelector finds
CreateToggle(e, mode) ==
    [e EXCEPT !.iconActive[mode.name] = Append(@, FALSE),
              !.optgroups[mode.name] = IF mode.selector THEN @ + 1 ELSE @]

RECURSIVE SetInitialState(_, _, _)
SetInitialState(e, ms, i) ==
    IF i > Len(ms) \/ e.thrown THEN e
    ELSE SetInitialState(
             setModeIconAndOptgroup(CreateToggle(e, ms[i]), ms,
                                    [name |-> ms[i].name, idx |-> 1],
                                    ms[i].name, e.menuModes[ms[i].name]),
             ms, i + 1)

showEditor(e, ms, source) ==
    LET proxied == [e EXCEPT !.menuModes = BuildMenuModes(ms, source),
                             !.log = Append(@, "showEditor")]
        wired == [proxied EXCEPT !.controlsListeners = @ + 1]
        built == SetInitialState(wired, ms, 1)
    IN  IF built.thrown THEN built ELSE prototype_showEditor(built)

hideEditor(e) ==
    prototype_hideEditor([e EXCEPT !.log = Append(@, "hideEditor")])

\* Simple.prototype.keyup: Enter commits, Escape cancels, and both close
prototype_keyup(e, key) ==
    LET entered == [e EXCEPT !.log = Append(@, "prototype.keyup")]
    IN  IF key \in {"Enter", "Escape"} THEN hideEditor(entered) ELSE entered

\* keyup without the test of the filtering mode
keyup_AnyFilteringMode(e, key, isFilterRow, filteringMode) ==
    IF key # "none"
    THEN LET base == prototype_keyup(e, key)
         IN  IF isFilterRow
             THEN [base EXCEPT !.log = @ \o <<"saveEditorValue", "_moveEditor">>]
             ELSE base
    ELSE e

keyup(e, key, isFilterRow, filteringMode) ==
    IF key # "none"
    THEN LET base == prototype_keyup(e, key)
         IN  IF isFilterRow
             THEN IF filteringMode = "immediate"
                  THEN [base EXCEPT !.log = @ \o <<"saveEditorValue", "_moveEditor">>]
                  ELSE base
             ELSE base
    ELSE e

\* the blur of the editor element: el.onblur, when there is one
blur(e) ==
    IF e.onblur = "null" THEN e ELSE hideEditor(e)

\* what Textfield's initialize leaves, then ComboBox's initialize
superInitialize ==
    [shown |-> FALSE, onblur |-> "stopEditing",
     controlsListeners |-> 0, controlsDisplay |-> "null",
     menuModes |-> [n \in Names |-> "undefined"],
     iconActive |-> [n \in Names |-> IF n = UnknownName THEN <<FALSE>> ELSE <<>>],
     optgroups |-> [n \in Names |-> 0],
     display |-> [g \in Groups |-> "null"],
     cursor |-> "null",
     visibility |-> "hidden", height |-> 0, moving |-> FALSE,
     transitionInProgress |-> FALSE, pending |-> <<>>,
     inputListener |-> FALSE, staleListeners |-> 0,
     dropperListeners |-> 0, changeListeners |-> 0,
     thrown |-> FALSE, log |-> <<>>,
     lastRequest |-> "hidden", accepted |-> "hidden", ignored |-> FALSE]

\* initialize without `el.onblur = null`
initialize_KeepBlur(e) ==
    [e EXCEPT !.dropperListeners = @ + 1,
              !.changeListeners = @ + 1]

initialize(e) ==
    [e EXCEPT !.dropperListeners = @ + 1,
              !.changeListeners = @ + 1,
              !.onblur = "null"]

----------------------------------------------------------------------------
(* The event loop *)

Keys == {"none", "Enter", "Escape", "a"}

FilteringModes == {"immediate", "onCommit"}

NoTarget == [tag |-> "none", cls |-> "none", name |-> "none", idx |-> 1]

Event(type) ==
    [type |-> type, target |-> NoTarget, key |-> "none",
     isFilterRow |-> FALSE, filteringMode |-> "none"]

\* the opposite of the computed visibility: what a toggle asks for
Opposite(state) == IF state = "hidden" THEN "visible" ELSE "hidden"

\* a handler starts with an empty call log and nothing thrown
Begin(e) == [e EXCEPT !.log = <<>>, !.thrown = FALSE]

(* Three fields of `ed` belong to no object of the program: they record    *)
(* what the user asked of the drop-down.                                   *)
(*   lastRequest  the state the last request asked for                     *)
(*   accepted     the state asked for by the last request that was issued  *)
(*                with no transition in flight, or by the last abort       *)
(*   ignored      the last request was a toggle issued in flight           *)

\* a user's toggle request
Request(e) ==
    [Begin(e) EXCEPT !.lastRequest = Opposite(e.visibility),
                     !.accepted = IF e.transitionInProgress
                                  THEN @ ELSE Opposite(e.visibility),
                     !.ignored = e.transitionInProgress]

\* a user's abort (mousedown in the input): asks for the drop-down to close
Abort(e) ==
    [Begin(e) EXCEPT !.lastRequest = "hidden",
                     !.accepted = "hidden",
                     !.ignored = FALSE]

Init ==
    /\ modes \in {ms \in ModeLists : WellFormedModes(ms)}
    /\ menuModesSource \in
         {src \in [Names -> SourceValues] :
            \A n \in Names : n \notin ModeNameSet(modes) => src[n] = "undefined"}
    /\ ed = initialize(superInitialize)
    /\ lastEvent = Event("initialize")

ShowEditor ==
    /\ ~ed.shown
    /\ ed.controlsListeners < MaxShows
    /\ ed' = showEditor(Begin(ed), modes, menuModesSource)
    /\ lastEvent' = Event("showEditor")
    /\ UNCHANGED <<modes, menuModesSource>>

HideEditor ==
    /\ ed.shown
    /\ ed' = hideEditor(Begin(ed))
    /\ lastEvent' = Event("hideEditor")
    /\ UNCHANGED <<modes, menuModesSource>>

DropperMouseDown ==
    /\ ed.shown
    /\ ed' = toggleDropDown(Request(ed))
    /\ ed'.staleListeners <= MaxStale
    /\ lastEvent' = Event("dropperMouseDown")
    /\ UNCHANGED <<modes, menuModesSource>>

DropDownChange ==
    /\ ed.shown
    /\ ed.visibility = "visible"
    /\ ed' = insertText(Request(ed))
    /\ ed'.staleListeners <= MaxStale
    /\ lastEvent' = Event("change")
    /\ UNCHANGED <<modes, menuModesSource>>

InputMouseDown ==
    /\ ed.shown
    /\ InputListeners(ed) > 0
    /\ ed' = inputMouseDown(Abort(ed))
    /\ lastEvent' = Event("inputMouseDown")
    /\ UNCHANGED <<modes, menuModesSource>>

ControlsClick ==
    \E target \in ClickTargets :
        /\ ed.shown
        /\ target.name \in ModeNameSet(modes) \cup {UnknownName, "none"}
        /\ target.name # "none" => target.idx <= Len(ed.iconActive[target.name])
        /\ ed' = controlsClick(Begin(ed), modes, target)
        /\ lastEvent' = [Event("click") EXCEPT !.target = target]
        /\ UNCHANGED <<modes, menuModesSource>>

KeyUp ==
    \E key \in Keys, isFilterRow \in BOOLEAN, filteringMode \in FilteringModes :
        /\ ed.shown
        /\ ed' = keyup(Begin(ed), key, isFilterRow, filteringMode)
        /\ lastEvent' = [Event("keyup") EXCEPT !.key = key,
                                               !.isFilterRow = isFilterRow,
                                               !.filteringMode = filteringMode]
        /\ UNCHANGED <<modes, menuModesSource>>

Blur ==
    /\ ed.shown
    /\ ed' = blur(Begin(ed))
    /\ lastEvent' = Event("blur")
    /\ UNCHANGED <<modes, menuModesSource>>

TransitionEnd ==
    /\ ed.moving
    /\ ed' = transitionEnd(Begin(ed))
    /\ lastEvent' = Event("transitionEnd")
    /\ UNCHANGED <<modes, menuModesSource>>

\* setTimeout(function() { style.cursor = null; }, 333): the cursor shows
\* progress from a truthy setModeIconAndOptgroup until the next of its timers
CursorTimeout ==
    /\ ed.cursor = "progress"
    /\ ed' = [Begin(ed) EXCEPT !.cursor = "null"]
    /\ lastEvent' = Event("cursorTimeout")
    /\ UNCHANGED <<modes, menuModesSource>>

\* the editor's life cycle, driven by the grid
NextEditor ==
    \/ ShowEditor
    \/ HideEditor

\* the events of the drop-down: the dropper, the select list, the input and
\* the transition of this.options
NextDropDown ==
    \/ NextEditor
    \/ DropperMouseDown
    \/ DropDownChange
    \/ InputMouseDown
    \/ TransitionEnd

\* the events of the controls area
NextModes ==
    \/ NextEditor
    \/ ControlsClick
    \/ CursorTimeout

\* the events of the editor element
NextKeys ==
    \/ NextEditor
    \/ KeyUp
    \/ Blur

Next ==
    \/ NextDropDown
    \/ NextModes
    \/ NextKeys

Spec == Init /\ [][Next]_vars

(* The three groups of events act on disjoint fields of the editor, and    *)
(* each is checked with the editor's life cycle on its own.                *)
SpecDropDown == Init /\ [][NextDropDown]_vars

SpecModes == Init /\ [][NextModes]_vars

SpecKeys == Init /\ [][NextKeys]_vars

\* the drop-down with every started CSS transition signalling its end
SpecDropDownLive == SpecDropDown /\ WF_vars(TransitionEnd)

----------------------------------------------------------------------------
(* Vocabulary of the properties *)

Slides == {"slideDown", "slideUp"}

\* the slide effects the last handler started
SlidesIn(log) == {i \in DOMAIN log : log[i] \in Slides}

\* no transition in flight, for the flag and for the browser
Quiescent(e) == ~e.transitionInProgress /\ ~e.moving

\* what a toggle of the drop-down can change
DropDownState(e) ==
    <<e.visibility, e.height, e.moving, e.transitionInProgress, e.pending,
      e.inputListener, e.staleListeners>>

IsToggle(ev) == ev.type \in {"dropperMouseDown", "change"}

----------------------------------------------------------------------------
(* The drop-down: C1, C2, C5, C6 *)

C2_ToggleAlternates ==
    [][ /\ (IsToggle(lastEvent') /\ ~ed.transitionInProgress)
            => /\ ed.visibility = "hidden"
                    => /\ ed'.log[Len(ed'.log)] = "slideDown"
                       /\ ed'.visibility = "visible"
               /\ ed.visibility = "visible"
                    => /\ ed'.log[Len(ed'.log)] = "slideUp"
                       /\ ed'.pending[Len(ed'.pending)] = "hide"
               /\ Cardinality(SlidesIn(ed'.log)) = 1
        /\ (Quiescent(ed') /\ ~ed'.ignored) => ed'.visibility = ed'.lastRequest
        /\ ed'.visibility \in {"hidden", "visible"}
      ]_vars

\* the panel has been opened and closed again by two toggles, each issued
\* at rest
C2_Witness ==
    /\ lastEvent.type = "transitionEnd"
    /\ ~ed.ignored
    /\ ed.lastRequest = "hidden"
    /\ ed.visibility = "hidden"
    /\ ed.log = <<>>
    /\ Quiescent(ed)

\* C5 (as claimed): no slide effect starts while the transition flag is set,
\* whatever event starts it.
C5_NoSlideInFlight ==
    [][ SlidesIn(ed'.log) # {} => ~ed.transitionInProgress ]_vars

----------------------------------------------------------------------------
(* The mode toggles: C3, C7, C9 *)

ToggleOf(name) == [tag |-> "SPAN", cls |-> "toggle-mode", name |-> name, idx |-> 1]

\* a span of the controls area that is the toggle of no mode
NotAToggle(target) ==
    /\ target.tag = "SPAN"
    /\ target.cls # "toggle-mode" \/ target.name \notin ModeNameSet(modes)

\* C3 (as claimed): while the editor is shown, two onModeIconClick calls on
\* a mode's toggle leave the display of that mode's option group as it was,
\* whatever state showEditor copied for the mode.
C3_TwoClicksRestoreDisplay ==
    ed.shown =>
        \A m \in ModeSet(modes) :
            LET once == onModeIconClick(Begin(ed), modes, ToggleOf(m.name))
                twice == onModeIconClick(once, modes, ToggleOf(m.name))
            IN  twice.display[GroupOf(m)] = ed.display[GroupOf(m)]

\* C7 (as claimed): a click on a span that is the toggle of no mode throws
\* nothing and leaves menuModes, the icons and the option groups unchanged.
C7_BadClickIsNoOp ==
    [][ (lastEvent'.type = "click" /\ NotAToggle(lastEvent'.target))
            => /\ ~ed'.thrown
               /\ ed'.menuModes = ed.menuModes
               /\ ed'.iconActive = ed.iconActive
               /\ ed'.display = ed.display
      ]_vars

\* C9 (as claimed): with exactly one mode defined, the control area is
\* hidden once showEditor has run.
C9_SingleModeHidesControls ==
    (ed.shown /\ Len(modes) = 1) => ed.controlsDisplay = "none"

----------------------------------------------------------------------------
(* The editor: C4, C8, C10 *)

\* C4 (as claimed): when hideEditor runs while the drop-down is open, no
\* click listener of the controls area and no mousedown listener of the
\* input is left afterwards.
C4_HideReleasesListeners ==
    [][ (lastEvent'.type = "hideEditor" /\ ed.inputListener)
            => /\ ed'.controlsListeners = 0
               /\ InputListeners(ed') = 0
      ]_vars

\* C8 (as claimed): a blur of the open editor ends the edit session.
C8_BlurEndsSession ==
    [][ lastEvent'.type = "blur" => ~ed'.shown ]_vars

\* C8 (amended): a blur of the open editor does not end the edit session:
\* the editor has no blur handler, and stays open and unchanged.
C8_BlurKeepsEditorOpen ==
    [][ lastEvent'.type = "blur"
            => /\ ed'.shown
               /\ ed'.onblur = "null"
               /\ ed' = Begin(ed)
      ]_vars

\* the open editor has lost the focus
C8_Witness ==
    /\ lastEvent.type = "blur"
    /\ ed.shown
    /\ ed.log = <<>>

Count(log, name) == Cardinality({i \in DOMAIN log : log[i] = name})

\* C10: keyup with an event runs the base keyup first, and then
\* saveEditorValue followed by _moveEditor exactly when the editor is on the
\* filter row and the filtering mode is 'immediate', and neither otherwise;
\* keyup with no event calls nothing and changes nothing.
C10_KeyupCalls ==
    [][ lastEvent'.type = "keyup"
            => LET log == ed'.log
                   n == Len(log)
               IN  /\ lastEvent'.key = "none" => ed' = Begin(ed)
                   /\ lastEvent'.key # "none"
                        => /\ n >= 1
                           /\ log[1] = "prototype.keyup"
                           /\ Count(log, "prototype.keyup") = 1
                           /\ IF /\ lastEvent'.isFilterRow
                                 /\ lastEvent'.filteringMode = "immediate"
                              THEN /\ n >= 3
                                   /\ log[n - 1] = "saveEditorValue"
                                   /\ log[n] = "_moveEditor"
                                   /\ Count(log, "saveEditorValue") = 1
                                   /\ Count(log, "_moveEditor") = 1
                              ELSE /\ Count(log, "saveEditorValue") = 0
                                   /\ Count(log, "_moveEditor") = 0
      ]_vars

\* a key was released on the filter row in immediate filtering mode
C10_Witness ==
    /\ lastEvent.type = "keyup"
    /\ lastEvent.isFilterRow
    /\ lastEvent.filteringMode = "immediate"
    /\ ed.log = <<"prototype.keyup", "saveEditorValue", "_moveEditor">>

----------------------------------------------------------------------------
(* The drop-down, continued: C11, C12, C14, C15 *)

InSeq(x, seq) == \E i \in DOMAIN seq : seq[i] = x

\* C11: the panel becomes hidden only at the end of the slide-up
\* transition.  The handler that calls slideUp leaves the panel visible,
\* with the flag set and the hide scheduled; as long as the hide is
\* scheduled the panel is visible and the flag set; visibility goes from
\* visible to hidden in no step but the end of a transition that had the
\* hide scheduled.  slideDown makes the panel visible at once, while its
\* transition is still in flight.
C11_HiddenOnlyAtTransitionEnd ==
    [][ /\ InSeq("slideUp", ed'.log)
            => /\ ed'.visibility = "visible"
               /\ ed'.transitionInProgress
               /\ InSeq("hide", ed'.pending)
        /\ InSeq("hide", ed'.pending)
            => /\ ed'.visibility = "visible"
               /\ ed'.transitionInProgress
        /\ (ed.visibility = "visible" /\ ed'.visibility = "hidden")
            => /\ lastEvent'.type = "transitionEnd"
               /\ InSeq("hide", ed.pending)
        /\ InSeq("slideDown", ed'.log)
            => /\ ed'.visibility = "visible"
               /\ ed'.transitionInProgress
               /\ ed'.moving
      ]_vars

\* the slide-up effect is in flight: the panel is still visible
C11_Witness ==
    /\ InSeq("slideUp", ed.log)
    /\ ed.height = 0
    /\ ed.moving
    /\ ed.visibility = "visible"
    /\ ed.transitionInProgress

\* C12 (as claimed): every pick of an option (change event, insertText)
\* starts slideUp, whatever state the drop-down is in at the pick.
C12_PickStartsSlideUp ==
    [][ lastEvent'.type = "change" => InSeq("slideUp", ed'.log) ]_vars

\* C15: the input never holds more than one mousedown abort listener, and
\* holds one exactly when the drop-down was last slid down (its height is
\* the open height); slideDown adds its listener only when none is
\* registered, and slideUp finds the listener of the last slideDown and
\* leaves none.
C15_OneAbortListener ==
    [][ /\ InputListeners(ed') <= 1
        /\ ed'.staleListeners = 0
        /\ ed'.inputListener <=> (ed'.height = DropDownHeight)
        /\ InSeq("slideDown", ed'.log) => InputListeners(ed) = 0
        /\ InSeq("slideUp", ed'.log)
            => /\ ed.inputListener
               /\ InputListeners(ed') = 0
      ]_vars

\* the drop-down is open and at rest, its abort listener registered
C15_Witness ==
    /\ ed.inputListener
    /\ InputListeners(ed) = 1
    /\ ed.visibility = "visible"
    /\ Quiescent(ed)

\* C14: the drop-down never locks up, provided every started CSS
\* transition signals its end.  The flag is set only while a transition is
\* running, and is eventually cleared; with the flag clear, a toggle is
\* accepted and changes the drop-down; and after an abort by a mousedown in
\* the input, also one during the slide down, the panel ends hidden with
\* the flag clear.
C14_NeverLocksUp ==
    /\ [](ed.transitionInProgress => ed.moving)
    /\ ed.transitionInProgress ~> ~ed.transitionInProgress
    /\ [](~ed.transitionInProgress
            => LET next == toggleDropDown(Request(ed))
               IN  /\ Cardinality(SlidesIn(next.log)) = 1
                   /\ DropDownState(next) # DropDownState(ed))
    /\ (lastEvent.type = "inputMouseDown")
            ~> (ed.visibility = "hidden" /\ ~ed.transitionInProgress)

\* a mousedown in the input has aborted the slide down while in flight
C14_Witness ==
    /\ lastEvent.type = "inputMouseDown"
    /\ ed.pending = <<"null", "hide">>
    /\ ed.transitionInProgress
    /\ ed.moving

----------------------------------------------------------------------------
(* The mode toggles, continued: C13, C16 *)

\* the toggles of class 'toggle-mode-' + name in the controls area
Toggles(e, name) == Len(e.iconActive[name])

IsToggleOfMode(target) ==
    /\ target.cls = "toggle-mode"
    /\ target.name \in ModeNameSet(modes)

\* C13 (as claimed): whatever the number of showEditor/hideEditor cycles,
\* one click on a mode's toggle flips the mode's state in menuModes exactly
\* once, and the shown editor holds one click handler, one toggle per mode
\* and one option group per labelled mode.
C13_NothingAccumulates ==
    [][ /\ (lastEvent'.type = "click" /\ IsToggleOfMode(lastEvent'.target))
            => LET name == lastEvent'.target.name
               IN  ed'.menuModes[name] = Xor1(ed.menuModes[name])
        /\ ed'.shown
            => /\ ed'.controlsListeners = 1
               /\ \A m \in ModeSet(modes) :
                    /\ Toggles(ed', m.name) = 1
                    /\ m.selector => ed'.optgroups[m.name] = 1
      ]_vars

\* C16 (as claimed): while the editor is shown, every toggle of every mode
\* carries 'active' if and only if the mode's state in menuModes is truthy,
\* if and only if the mode's option group is displayed.
C16_IconStateGroupAgree ==
    ed.shown =>
        \A m \in ModeSet(modes) :
            /\ \A i \in 1..Toggles(ed, m.name) :
                    ed.iconActive[m.name][i] <=> Truthy(ed.menuModes[m.name])
            /\ Truthy(ed.menuModes[m.name]) <=> (ed.display[GroupOf(m)] # "none")

====
